---- MODULE Spec2Model ----
(***************************************************************************)
(* Detection scoring of wheat_efficientdet (src/src/metrics.py):           *)
(* calculate_iou, find_best_match, calculate_precision,                    *)
(* calculate_image_precision, calculate_final_score and evaluate_MAP.      *)
(*                                                                         *)
(* Numbers.  Boxes are integer arrays (evaluate_MAP casts with             *)
(* astype(int)), so every IoU and every precision is a ratio of integers.  *)
(* A value is a record [exc, n, d]: exc = "none" is the number n/d in      *)
(* lowest terms with d > 0 (d = 0, n = -1 is -inf), exc =                  *)
(* "ZeroDivisionError" is the exception numba's nopython mode raises for   *)
(* a division by zero, exc = "nan" is numpy's mean of an empty list.       *)
(* IoU thresholds and confidences are integers in hundredths.              *)
(* Indices are 0-based as in the source; sequences are read at idx + 1.    *)
(***************************************************************************)
EXTENDS Integers, Sequences, FiniteSets, TLC

VARIABLES
    entry,            \* the function the caller invoked
    pc,               \* control location of the running call
    input,            \* the arguments the caller passed (never assigned again)
    heap,             \* numpy arrays of ground-truth boxes, by reference
    gts_ref,          \* calculate_precision's parameter gts (a reference)
    preds,            \* calculate_image_precision's parameter preds
    scores,           \* calculate_final_score's local scores
    thresholds,       \* calculate_image_precision's parameter thresholds
    t_idx,            \* position of "for threshold in thresholds"
    ious,             \* the IoU cache of calculate_image_precision
    image_precision,  \* accumulator of calculate_image_precision
    pred_idx,         \* loop index of calculate_precision
    tp,               \* true positives of the running pass
    fp,               \* false positives of the running pass
    matches,          \* best_match_gt_idx of every prediction of the pass so far
    final_scores,     \* calculate_final_score's list of image precisions
    all_predictions,  \* evaluate_MAP's accumulated image records
    sweep_idx,        \* position of the cutoff sweep of evaluate_MAP
    final_score,      \* evaluate_MAP's local final_score
    best_final_score, \* evaluate_MAP's best score so far
    precision_at_threshold, \* what the last calculate_precision returned
    i,                \* evaluate_MAP's index over the batch
    ret               \* what the call returned or raised

vars == <<entry, pc, input, heap, gts_ref, preds, scores, thresholds, t_idx, ious,
          image_precision, pred_idx, tp, fp, matches, final_scores,
          all_predictions, sweep_idx, final_score, best_final_score,
          precision_at_threshold, i, ret>>

---------------------------------------------------------------------------
(* Bounds of the model *)

\* largest coordinate of the boxes given to calculate_iou alone
IouMaxCoord == 2
\* largest x coordinate of the boxes of an image
MaxCoord == 1
\* ground-truth boxes plus predictions of one image
MaxBoxes == 3
\* images of the batch given to evaluate_MAP
MaxImages == 2
\* target boxes plus detections of the whole batch
MaxBatchBoxes == 3

---------------------------------------------------------------------------
(* Arithmetic on exact ratios *)

Min(a, b) == IF a < b THEN a ELSE b
Max(a, b) == IF a > b THEN a ELSE b
Abs(a) == IF a < 0 THEN -a ELSE a

RECURSIVE GCD(_, _)
GCD(a, b) == IF b = 0 THEN a ELSE GCD(b, a % b)

Float(n, d) ==
    LET g == GCD(Abs(n), Abs(d))
    IN  IF g = 0 THEN [exc |-> "none", n |-> 0, d |-> 1]
        ELSE [exc |-> "none", n |-> n \div g, d |-> d \div g]

ZeroDivisionError == [exc |-> "ZeroDivisionError", n |-> 0, d |-> 1]
NaN == [exc |-> "nan", n |-> 0, d |-> 1]
NegInf == [exc |-> "none", n |-> -1, d |-> 0]
Raised(v) == v.exc = "ZeroDivisionError"

\* a < b on numbers (also with a or b = -inf)
FLess(a, b) == a.n * b.d < b.n * a.d
FAdd(a, b) == Float(a.n * b.d + b.n * a.d, a.d * b.d)
\* a / k for a number a and an integer k > 0
FDivInt(a, k) == Float(a.n, a.d * k)
\* Python's a / b on integers under numba's default error model
TrueDiv(a, b) == IF b = 0 THEN ZeroDivisionError ELSE Float(a, b)

RECURSIVE SumSeq(_)
SumSeq(s) == IF s = << >> THEN 0 ELSE Head(s) + SumSeq(Tail(s))

\* F applied to the value of x, the value computed once (call by value)
With(x, F(_)) == CHOOSE r \in {F(v) : v \in {x}} : TRUE

SeqsUpTo(S, n) == UNION {[1..k -> S] : k \in 0..n}

---------------------------------------------------------------------------
(* calculate_iou *)

ToCorners(b, form) ==
    IF form = "coco" THEN <<b[1], b[2], b[1] + b[3], b[2] + b[4]>> ELSE b

CalculateIouNoGuard(gt0, pr0, form) ==
    LET gt == ToCorners(gt0, form)
        pr == ToCorners(pr0, form)
        dx == Min(gt[3], pr[3]) - Max(gt[1], pr[1]) + 1
        dy == Min(gt[4], pr[4]) - Max(gt[2], pr[2]) + 1
        overlap_area == dx * dy
        union_area == (gt[3] - gt[1] + 1) * (gt[4] - gt[2] + 1)
                      + (pr[3] - pr[1] + 1) * (pr[4] - pr[2] + 1)
                      - overlap_area
    IN  TrueDiv(overlap_area, union_area)

CalculateIou(gt0, pr0, form) ==
    LET gt == ToCorners(gt0, form)
        pr == ToCorners(pr0, form)
        dx == Min(gt[3], pr[3]) - Max(gt[1], pr[1]) + 1
        dy == Min(gt[4], pr[4]) - Max(gt[2], pr[2]) + 1
        overlap_area == dx * dy
        union_area == (gt[3] - gt[1] + 1) * (gt[4] - gt[2] + 1)
                      + (pr[3] - pr[1] + 1) * (pr[4] - pr[2] + 1)
                      - overlap_area
    IN  IF dx < 0 THEN Float(0, 1)
        ELSE IF dy < 0 THEN Float(0, 1)
        ELSE TrueDiv(overlap_area, union_area)

---------------------------------------------------------------------------
(* find_best_match *)

\* the cache passed as ious: None, or a len(gts) x len(preds) matrix
NoCache == [is_none |-> TRUE, cells |-> << >>]
\* np.ones((len(gts), len(preds))) * -1
NewCacheZeros(n_gts, n_preds) ==
    [is_none |-> FALSE,
     cells |-> [g \in 1..n_gts |-> [p \in 1..n_preds |-> Float(0, 1)]]]

NewCache(n_gts, n_preds) ==
    [is_none |-> FALSE,
     cells |-> [g \in 1..n_gts |-> [p \in 1..n_preds |-> Float(-1, 1)]]]

Threshold(t) == Float(t, 100)

\* one iteration of "for gt_idx in range(len(gts))"; st = [iou, idx, ious]
FindBestMatchBodyLastWins(gts, pred, p_idx, threshold, form, st, gt_idx) ==
    IF gts[gt_idx + 1][1] < 0 THEN st
    ELSE
        LET cached == IF st.ious.is_none THEN Float(-1, 1)
                      ELSE st.ious.cells[gt_idx + 1][p_idx + 1]
            miss == FLess(cached, Float(0, 1))
            iou == IF miss THEN CalculateIou(gts[gt_idx + 1], pred, form) ELSE cached
            ious2 == IF miss /\ ~st.ious.is_none
                     THEN [st.ious EXCEPT !.cells[gt_idx + 1][p_idx + 1] = iou]
                     ELSE st.ious
        IN  IF FLess(iou, Threshold(threshold))
            THEN [st EXCEPT !.ious = ious2]
            ELSE IF ~FLess(iou, st.iou)
            THEN [iou |-> iou, idx |-> gt_idx, ious |-> ious2]
            ELSE [st EXCEPT !.ious = ious2]

FindBestMatchBodyNoThreshold(gts, pred, p_idx, threshold, form, st, gt_idx) ==
    IF gts[gt_idx + 1][1] < 0 THEN st
    ELSE
        LET cached == IF st.ious.is_none THEN Float(-1, 1)
                      ELSE st.ious.cells[gt_idx + 1][p_idx + 1]
            miss == FLess(cached, Float(0, 1))
            iou == IF miss THEN CalculateIou(gts[gt_idx + 1], pred, form) ELSE cached
            ious2 == IF miss /\ ~st.ious.is_none
                     THEN [st.ious EXCEPT !.cells[gt_idx + 1][p_idx + 1] = iou]
                     ELSE st.ious
        IN  IF FLess(st.iou, iou)
            THEN [iou |-> iou, idx |-> gt_idx, ious |-> ious2]
            ELSE [st EXCEPT !.ious = ious2]

FindBestMatchBody(gts, pred, p_idx, threshold, form, st, gt_idx) ==
    IF gts[gt_idx + 1][1] < 0 THEN st
    ELSE
        LET cached == IF st.ious.is_none THEN Float(-1, 1)
                      ELSE st.ious.cells[gt_idx + 1][p_idx + 1]
            miss == FLess(cached, Float(0, 1))
            iou == IF miss THEN CalculateIou(gts[gt_idx + 1], pred, form) ELSE cached
            ious2 == IF miss /\ ~st.ious.is_none
                     THEN [st.ious EXCEPT !.cells[gt_idx + 1][p_idx + 1] = iou]
                     ELSE st.ious
        IN  IF FLess(iou, Threshold(threshold))
            THEN [st EXCEPT !.ious = ious2]
            ELSE IF FLess(st.iou, iou)
            THEN [iou |-> iou, idx |-> gt_idx, ious |-> ious2]
            ELSE [st EXCEPT !.ious = ious2]

RECURSIVE FindBestMatchLoop(_, _, _, _, _, _, _)
FindBestMatchLoop(gts, pred, p_idx, threshold, form, st, gt_idx) ==
    IF gt_idx >= Len(gts) THEN st
    ELSE With(FindBestMatchBody(gts, pred, p_idx, threshold, form, st, gt_idx),
              LAMBDA nxt : FindBestMatchLoop(gts, pred, p_idx, threshold, form,
                                             nxt, gt_idx + 1))

\* returns [idx |-> best_match_idx, ious |-> the cache after the call]
FindBestMatch(gts, pred, p_idx, threshold, form, cache) ==
    With(FindBestMatchLoop(gts, pred, p_idx, threshold, form,
                           [iou |-> NegInf, idx |-> -1, ious |-> cache], 0),
         LAMBDA st : [idx |-> st.idx, ious |-> st.ious])

---------------------------------------------------------------------------
(* calculate_precision *)

\* gts[best_match_gt_idx] = -1
MarkMatchedZero(gts, idx) == [gts EXCEPT ![idx + 1] = <<0, 0, 0, 0>>]

MarkMatched(gts, idx) == [gts EXCEPT ![idx + 1] = <<-1, -1, -1, -1>>]

\* one iteration of "for pred_idx in range(len(preds))";
\* st = [gts, ious, tp, fp, pred_idx, matches]
PrecisionBody(st, prs, threshold, form) ==
    With(FindBestMatch(st.gts, prs[st.pred_idx + 1], st.pred_idx,
                       threshold, form, st.ious),
         LAMBDA m :
            IF m.idx >= 0
            THEN [gts |-> MarkMatched(st.gts, m.idx), ious |-> m.ious,
                  tp |-> st.tp + 1, fp |-> st.fp,
                  pred_idx |-> st.pred_idx + 1,
                  matches |-> Append(st.matches, m.idx)]
            ELSE [gts |-> st.gts, ious |-> m.ious,
                  tp |-> st.tp, fp |-> st.fp + 1,
                  pred_idx |-> st.pred_idx + 1,
                  matches |-> Append(st.matches, m.idx)])

\* fn = (gts.sum(axis=1) > 0).sum()
FalseNegatives(gts) ==
    Cardinality({k \in 1..Len(gts) : SumSeq(gts[k]) > 0})

\* return tp / (tp + fp + fn)
PrecisionValueNoFp(gts, n_tp, n_fp) == TrueDiv(n_tp, n_tp + FalseNegatives(gts))

PrecisionValue(gts, n_tp, n_fp) == TrueDiv(n_tp, n_tp + n_fp + FalseNegatives(gts))

RECURSIVE PrecisionLoop(_, _, _, _)
PrecisionLoop(st, prs, threshold, form) ==
    IF st.pred_idx >= Len(prs) THEN st
    ELSE With(PrecisionBody(st, prs, threshold, form),
              LAMBDA nxt : PrecisionLoop(nxt, prs, threshold, form))

\* the whole call: [ret, gts, ious, tp, fp, matches], gts and ious as it leaves them
CalculatePrecision(gts, prs, threshold, form, cache) ==
    With(PrecisionLoop([gts |-> gts, ious |-> cache, tp |-> 0, fp |-> 0,
                        pred_idx |-> 0, matches |-> << >>],
                       prs, threshold, form),
         LAMBDA st :
            [ret |-> PrecisionValue(st.gts, st.tp, st.fp), gts |-> st.gts,
             ious |-> st.ious, tp |-> st.tp, fp |-> st.fp, matches |-> st.matches])

---------------------------------------------------------------------------
(* calculate_image_precision, one step per prediction *)

\* gts.copy(): a new array; the caller's array stays behind its own reference
GtsNoCopy(h, ref) == [heap |-> h, ref |-> ref]

GtsCopy(h, ref) ==
    [heap |-> [r \in DOMAIN h \cup {"gts_copy"} |->
                  IF r = "gts_copy" THEN h[ref] ELSE h[r]],
     ref |-> "gts_copy"]

\* the copy is unreachable once calculate_precision has returned
Release(h) == [r \in DOMAIN h \ {"gts_copy"} |-> h[r]]

\* image_precision += precision_at_threshold / len(thresholds)
Accumulate(acc, precision, n) == FAdd(acc, FDivInt(precision, n))

\* image_precision = 0.0; ious = np.ones((len(gts), len(preds))) * -1
ImagePrecisionEnter ==
    /\ pc = "ip_enter"
    /\ image_precision' = Float(0, 1)
    /\ ious' = NewCache(Len(heap["gts"]), Len(preds))
    /\ t_idx' = 0
    /\ pc' = "ip_loop"
    /\ UNCHANGED <<entry, input, heap, gts_ref, preds, scores, thresholds, pred_idx,
                   tp, fp, matches, final_scores, all_predictions, sweep_idx,
                   final_score, best_final_score, precision_at_threshold, i, ret>>

\* for threshold in thresholds: calculate_precision(gts.copy(), ...) is entered
PassBegin ==
    /\ pc = "ip_loop"
    /\ t_idx < Len(thresholds)
    /\ LET c == GtsCopy(heap, "gts")
       IN  /\ heap' = c.heap
           /\ gts_ref' = c.ref
    /\ tp' = 0
    /\ fp' = 0
    /\ pred_idx' = 0
    /\ matches' = << >>
    /\ pc' = "cp_loop"
    /\ UNCHANGED <<entry, input, preds, scores, thresholds, t_idx, ious,
                   image_precision, final_scores, all_predictions, sweep_idx,
                   final_score, best_final_score, precision_at_threshold, i, ret>>

\* one iteration of calculate_precision's loop over the predictions
PredStep ==
    /\ pc = "cp_loop"
    /\ pred_idx < Len(preds)
    /\ \E st \in {PrecisionBody([gts |-> heap[gts_ref], ious |-> ious, tp |-> tp,
                                  fp |-> fp, pred_idx |-> pred_idx,
                                  matches |-> matches],
                                 preds, thresholds[t_idx + 1], input.form)} :
           /\ heap' = [heap EXCEPT ![gts_ref] = st.gts]
           /\ ious' = st.ious
           /\ tp' = st.tp
           /\ fp' = st.fp
           /\ pred_idx' = st.pred_idx
           /\ matches' = st.matches
    /\ UNCHANGED <<entry, pc, input, gts_ref, preds, scores, thresholds, t_idx,
                   image_precision, final_scores, all_predictions, sweep_idx,
                   final_score, best_final_score, precision_at_threshold, i, ret>>

\* calculate_precision returns and its value is accumulated
PassReturn ==
    /\ pc = "cp_loop"
    /\ pred_idx >= Len(preds)
    /\ LET v == PrecisionValue(heap[gts_ref], tp, fp)
       IN  /\ ~Raised(v)
           /\ precision_at_threshold' = v
           /\ image_precision' = Accumulate(image_precision, v, Len(thresholds))
    /\ heap' = Release(heap)
    /\ t_idx' = t_idx + 1
    /\ pc' = "ip_loop"
    /\ UNCHANGED <<entry, input, gts_ref, preds, scores, thresholds, ious, pred_idx,
                   tp, fp, matches, final_scores, all_predictions, sweep_idx,
                   final_score, best_final_score, i, ret>>

\* calculate_precision divides by zero: the exception leaves every caller
PassRaise ==
    /\ pc = "cp_loop"
    /\ pred_idx >= Len(preds)
    /\ LET v == PrecisionValue(heap[gts_ref], tp, fp)
       IN  /\ Raised(v)
           /\ precision_at_threshold' = v
           /\ ret' = v
    /\ heap' = Release(heap)
    /\ pc' = "raised"
    /\ UNCHANGED <<entry, input, gts_ref, preds, scores, thresholds, t_idx, ious,
                   image_precision, pred_idx, tp, fp, matches, final_scores,
                   all_predictions, sweep_idx, final_score, best_final_score, i>>

\* return image_precision
ImagePrecisionReturn ==
    /\ pc = "ip_loop"
    /\ t_idx >= Len(thresholds)
    /\ ret' = image_precision
    /\ pc' = "done"
    /\ UNCHANGED <<entry, input, heap, gts_ref, preds, scores, thresholds, t_idx,
                   ious, image_precision, pred_idx, tp, fp, matches, final_scores,
                   all_predictions, sweep_idx, final_score, best_final_score,
                   precision_at_threshold, i>>

---------------------------------------------------------------------------
(* The calls a caller can make of calculate_image_precision *)

\* boxes of an image: rows [x_min, 0, x_max, 0] (read as [x, 0, w, 0] under "coco")
ImageBoxes == UNION {{<<a, 0, b, 0>> : b \in a..MaxCoord} : a \in 0..MaxCoord}

Images ==
    UNION {{[gts |-> g, preds |-> p] : g \in [1..k -> ImageBoxes],
                                        p \in SeqsUpTo(ImageBoxes, MaxBoxes - k)}
           : k \in 0..MaxBoxes}

\* IoU thresholds a direct caller passes, in hundredths
ThresholdLevels == {50, 75}

\* threshold lists without repetition, in either order
ThresholdLists ==
    {ts \in SeqsUpTo(ThresholdLevels, Cardinality(ThresholdLevels)) :
        \A a, b \in 1..Len(ts) : a # b => ts[a] # ts[b]}

Forms == {"pascal_voc", "coco"}

None == Float(0, 1)

InitImagePrecision ==
    /\ entry = "calculate_image_precision"
    /\ pc = "ip_enter"
    /\ \E im \in Images, ts \in ThresholdLists, form \in Forms :
          /\ input = [gts |-> im.gts, preds |-> im.preds, thresholds |-> ts,
                      form |-> form]
          /\ heap = [r \in {"gts"} |-> im.gts]
          /\ preds = im.preds
          /\ thresholds = ts
    /\ gts_ref = "gts"
    /\ scores = << >>
    /\ t_idx = 0
    /\ ious = NoCache
    /\ image_precision = None
    /\ pred_idx = 0
    /\ tp = 0
    /\ fp = 0
    /\ matches = << >>
    /\ final_scores = << >>
    /\ all_predictions = << >>
    /\ sweep_idx = 0
    /\ final_score = None
    /\ best_final_score = None
    /\ precision_at_threshold = None
    /\ i = 0
    /\ ret = None

---------------------------------------------------------------------------
(* calculate_iou called on its own *)

IouCall ==
    /\ pc = "iou_call"
    /\ ret' = CalculateIou(input.gt, input.pr, input.form)
    /\ pc' = "done"
    /\ UNCHANGED <<entry, input, heap, gts_ref, preds, scores, thresholds, t_idx,
                   ious, image_precision, pred_idx, tp, fp, matches, final_scores,
                   all_predictions, sweep_idx, final_score, best_final_score,
                   precision_at_threshold, i>>

\* four coordinates each; under "pascal_voc" a row need not be a valid box
Rows == [1..4 -> 0..IouMaxCoord]

InitIou ==
    /\ entry = "calculate_iou"
    /\ pc = "iou_call"
    /\ \E gt \in Rows, pr \in Rows, form \in Forms :
          input = [gt |-> gt, pr |-> pr, form |-> form]
    /\ heap = << >>
    /\ preds = << >>
    /\ thresholds = << >>
    /\ gts_ref = "gts"
    /\ scores = << >>
    /\ t_idx = 0
    /\ ious = NoCache
    /\ image_precision = None
    /\ pred_idx = 0
    /\ tp = 0
    /\ fp = 0
    /\ matches = << >>
    /\ final_scores = << >>
    /\ all_predictions = << >>
    /\ sweep_idx = 0
    /\ final_score = None
    /\ best_final_score = None
    /\ precision_at_threshold = None
    /\ i = 0
    /\ ret = None

---------------------------------------------------------------------------
(* calculate_image_precision as one call *)

\* one iteration of "for threshold in thresholds";
\* st = [heap, ious, image_precision, t_idx, raised]
ImagePrecisionBody(st, ref, prs, ths, form) ==
    With(GtsCopy(st.heap, ref), LAMBDA c :
    With(c.heap[c.ref], LAMBDA gts :
    With(CalculatePrecision(gts, prs, ths[st.t_idx + 1], form, st.ious), LAMBDA r :
    With(Release([c.heap EXCEPT ![c.ref] = r.gts]), LAMBDA h :
        IF Raised(r.ret)
        THEN [st EXCEPT !.heap = h, !.ious = r.ious, !.raised = TRUE]
        ELSE [heap |-> h, ious |-> r.ious,
              image_precision |-> Accumulate(st.image_precision, r.ret, Len(ths)),
              t_idx |-> st.t_idx + 1, raised |-> FALSE]))))

RECURSIVE ImagePrecisionLoop(_, _, _, _, _)
ImagePrecisionLoop(st, ref, prs, ths, form) ==
    IF st.raised \/ st.t_idx >= Len(ths) THEN st
    ELSE With(ImagePrecisionBody(st, ref, prs, ths, form),
              LAMBDA nxt : ImagePrecisionLoop(nxt, ref, prs, ths, form))

\* [ret, heap]: the value returned (or the exception) and the arrays afterwards
CalculateImagePrecision(h, ref, prs, ths, form) ==
    With(ImagePrecisionLoop(
             [heap |-> h, ious |-> NewCache(Len(h[ref]), Len(prs)),
              image_precision |-> Float(0, 1), t_idx |-> 0, raised |-> FALSE],
             ref, prs, ths, form),
         LAMBDA st :
            [ret |-> IF st.raised THEN ZeroDivisionError ELSE st.image_precision,
             heap |-> st.heap])

---------------------------------------------------------------------------
(* calculate_final_score *)

\* thresholds = [0.5, 0.55, 0.6, 0.65, 0.7, 0.75]
IouThresholds == <<50, 55, 60, 65, 70, 75>>

\* np.where(scores > score_threshold): the indexes, ascending
RECURSIVE WhereGreaterEq(_, _, _)
WhereGreaterEq(scs, score_threshold, k) ==
    IF k >= Len(scs) THEN << >>
    ELSE IF scs[k + 1] >= score_threshold
         THEN <<k>> \o WhereGreaterEq(scs, score_threshold, k + 1)
         ELSE WhereGreaterEq(scs, score_threshold, k + 1)

RECURSIVE WhereGreater(_, _, _)
WhereGreater(scs, score_threshold, k) ==
    IF k >= Len(scs) THEN << >>
    ELSE IF scs[k + 1] > score_threshold
         THEN <<k>> \o WhereGreater(scs, score_threshold, k + 1)
         ELSE WhereGreater(scs, score_threshold, k + 1)

\* arr[indexes]
Take(arr, indexes) == [k \in 1..Len(indexes) |-> arr[indexes[k] + 1]]

\* the locals of one iteration before calculate_image_precision is called
FinalScoreFilterBelow(rec, score_threshold) ==
    LET indexes == WhereGreaterEq([k \in 1..Len(rec.scores) |-> -rec.scores[k]],
                                  -score_threshold, 0)
    IN  [pred_boxes |-> Take(rec.pred_boxes, indexes),
         scores |-> Take(rec.scores, indexes)]

FinalScoreFilterInclusive(rec, score_threshold) ==
    LET indexes == WhereGreaterEq(rec.scores, score_threshold, 0)
    IN  [pred_boxes |-> Take(rec.pred_boxes, indexes),
         scores |-> Take(rec.scores, indexes)]

FinalScoreFilter(rec, score_threshold) ==
    LET indexes == WhereGreater(rec.scores, score_threshold, 0)
    IN  [pred_boxes |-> Take(rec.pred_boxes, indexes),
         scores |-> Take(rec.scores, indexes)]

\* all_predictions[i]["gt_boxes"].copy()
GtBoxesCopy(h, ref) ==
    [heap |-> [r \in DOMAIN h \cup {"gt_boxes"} |->
                  IF r = "gt_boxes" THEN h[ref] ELSE h[r]],
     ref |-> "gt_boxes"]

\* one iteration of "for i in range(len(all_predictions))";
\* st = [all_predictions, final_scores, k, raised]
FinalScoreBody(st, score_threshold) ==
    With(st.all_predictions[st.k + 1], LAMBDA rec :
    With(GtBoxesCopy([r \in {"rec"} |-> rec.gt_boxes], "rec"), LAMBDA c :
    With(FinalScoreFilter(rec, score_threshold), LAMBDA f :
    With(CalculateImagePrecision(c.heap, c.ref, f.pred_boxes, IouThresholds,
                                 "pascal_voc"), LAMBDA r :
    With([st.all_predictions EXCEPT ![st.k + 1].gt_boxes = r.heap["rec"]],
         LAMBDA recs :
        IF Raised(r.ret)
        THEN [st EXCEPT !.all_predictions = recs, !.raised = TRUE]
        ELSE [all_predictions |-> recs,
              final_scores |-> Append(st.final_scores, r.ret),
              k |-> st.k + 1, raised |-> FALSE])))))

RECURSIVE FinalScoreLoop(_, _)
FinalScoreLoop(st, score_threshold) ==
    IF st.raised \/ st.k >= Len(st.all_predictions) THEN st
    ELSE With(FinalScoreBody(st, score_threshold),
              LAMBDA nxt : FinalScoreLoop(nxt, score_threshold))

RECURSIVE FSum(_)
FSum(vs) == IF vs = << >> THEN Float(0, 1) ELSE FAdd(Head(vs), FSum(Tail(vs)))

\* np.mean(final_scores)
Mean(vs) == IF vs = << >> THEN NaN ELSE FDivInt(FSum(vs), Len(vs))

\* [ret, all_predictions]: the value returned (or the exception) and the records
\* as the call leaves them
CalculateFinalScore(recs, score_threshold) ==
    With(FinalScoreLoop([all_predictions |-> recs, final_scores |-> << >>,
                         k |-> 0, raised |-> FALSE], score_threshold),
         LAMBDA st :
            [ret |-> IF st.raised THEN ZeroDivisionError ELSE Mean(st.final_scores),
             all_predictions |-> st.all_predictions,
             final_scores |-> st.final_scores])

---------------------------------------------------------------------------
(* calculate_final_score called on its own *)

\* it returns np.mean(final_scores)
FinalScoreReturn ==
    /\ pc = "fs_call"
    /\ \E r \in {CalculateFinalScore(all_predictions, input.score_threshold)} :
           /\ ~Raised(r.ret)
           /\ all_predictions' = r.all_predictions
           /\ final_scores' = r.final_scores
           /\ ret' = r.ret
    /\ pc' = "done"
    /\ UNCHANGED <<entry, input, heap, gts_ref, preds, scores, thresholds, t_idx,
                   ious, image_precision, pred_idx, tp, fp, matches, sweep_idx,
                   final_score, best_final_score, precision_at_threshold, i>>

\* calculate_image_precision raises for an image: the exception leaves the call
FinalScoreRaise ==
    /\ pc = "fs_call"
    /\ \E r \in {CalculateFinalScore(all_predictions, input.score_threshold)} :
           /\ Raised(r.ret)
           /\ all_predictions' = r.all_predictions
           /\ final_scores' = r.final_scores
           /\ ret' = r.ret
    /\ pc' = "raised"
    /\ UNCHANGED <<entry, input, heap, gts_ref, preds, scores, thresholds, t_idx,
                   ious, image_precision, pred_idx, tp, fp, matches, sweep_idx,
                   final_score, best_final_score, precision_at_threshold, i>>

---------------------------------------------------------------------------
(* evaluate_MAP *)

\* np.arange(0.2, 0.5, 0.01), in hundredths
SweepStart == 20
SweepStop == 50
SweepStep == 1
Cutoffs ==
    [k \in 1..((SweepStop - SweepStart + SweepStep - 1) \div SweepStep) |->
        SweepStart + (k - 1) * SweepStep]

\* the image is 1024 pixels wide: clip(min=0, max=1023)
ClipMax == 1023
Clip(v) == IF v < 0 THEN 0 ELSE IF v > ClipMax THEN ClipMax ELSE v

\* (boxes * 2).clip(min=0, max=1023).astype(int), row by row
Rescale(boxes) == [k \in 1..Len(boxes) |-> [c \in 1..4 |-> Clip(boxes[k][c] * 2)]]

\* boxes[:, 2] += boxes[:, 0]; boxes[:, 3] += boxes[:, 1] on preds[i][:, :4]
PredBoxes(rows) ==
    [k \in 1..Len(rows) |->
        <<rows[k][1], rows[k][2], rows[k][3] + rows[k][1], rows[k][4] + rows[k][2]>>]

\* targets[i]["boxes"][:, [0, 1, 2, 3]] = targets[i]["boxes"][:, [1, 0, 3, 2]]
SwapXY(boxes) ==
    [k \in 1..Len(boxes) |-> <<boxes[k][2], boxes[k][1], boxes[k][4], boxes[k][3]>>]

\* for i in range(bs): the record of image i is appended
MapAppend ==
    /\ pc = "map_append"
    /\ i < input.bs
    /\ LET swapped == SwapXY(heap["targets"][i + 1])
       IN  /\ heap' = [heap EXCEPT !["targets"][i + 1] = swapped]
           /\ all_predictions' = Append(all_predictions,
                  [pred_boxes |-> Rescale(PredBoxes(input.preds[i + 1])),
                   scores |-> [k \in 1..Len(input.preds[i + 1]) |->
                                  input.preds[i + 1][k][5]],
                   gt_boxes |-> Rescale(swapped)])
    /\ i' = i + 1
    /\ UNCHANGED <<entry, pc, input, gts_ref, preds, scores, thresholds, t_idx, ious,
                   image_precision, pred_idx, tp, fp, matches, final_scores,
                   sweep_idx, final_score, best_final_score,
                   precision_at_threshold, ret>>

\* best_final_score = 0
MapSweepBegin ==
    /\ pc = "map_append"
    /\ i >= input.bs
    /\ best_final_score' = Float(0, 1)
    /\ sweep_idx' = 0
    /\ pc' = "map_sweep"
    /\ UNCHANGED <<entry, input, heap, gts_ref, preds, scores, thresholds, t_idx,
                   ious, image_precision, pred_idx, tp, fp, matches, final_scores,
                   all_predictions, final_score, precision_at_threshold, i, ret>>

\* a > b as Python compares floats: False when either is nan
FGreater(a, b) == a.exc = "none" /\ b.exc = "none" /\ FLess(b, a)

\* if final_score > best_final_score: best_final_score = final_score
BestOfReversed(best, score) == IF FGreater(best, score) THEN score ELSE best

BestOf(best, score) == IF FGreater(score, best) THEN score ELSE best

\* one candidate cutoff of "for score_threshold in np.arange(0.2, 0.5, 0.01)"
MapSweepStep ==
    /\ pc = "map_sweep"
    /\ sweep_idx < Len(Cutoffs)
    /\ \E r \in {CalculateFinalScore(all_predictions, Cutoffs[sweep_idx + 1])} :
           /\ ~Raised(r.ret)
           /\ final_score' = r.ret
           /\ all_predictions' = r.all_predictions
           /\ best_final_score' = BestOf(best_final_score, r.ret)
    /\ sweep_idx' = sweep_idx + 1
    /\ UNCHANGED <<entry, pc, input, heap, gts_ref, preds, scores, thresholds, t_idx,
                   ious, image_precision, pred_idx, tp, fp, matches, final_scores,
                   precision_at_threshold, i, ret>>

\* calculate_final_score raises: evaluate_MAP returns nothing
MapSweepRaise ==
    /\ pc = "map_sweep"
    /\ sweep_idx < Len(Cutoffs)
    /\ \E r \in {CalculateFinalScore(all_predictions, Cutoffs[sweep_idx + 1])} :
           /\ Raised(r.ret)
           /\ all_predictions' = r.all_predictions
           /\ ret' = r.ret
    /\ pc' = "raised"
    /\ UNCHANGED <<entry, input, heap, gts_ref, preds, scores, thresholds, t_idx,
                   ious, image_precision, pred_idx, tp, fp, matches, final_scores,
                   sweep_idx, final_score, best_final_score,
                   precision_at_threshold, i>>

\* return best_final_score
MapReturn ==
    /\ pc = "map_sweep"
    /\ sweep_idx >= Len(Cutoffs)
    /\ ret' = best_final_score
    /\ pc' = "done"
    /\ UNCHANGED <<entry, input, heap, gts_ref, preds, scores, thresholds, t_idx,
                   ious, image_precision, pred_idx, tp, fp, matches, final_scores,
                   all_predictions, sweep_idx, final_score, best_final_score,
                   precision_at_threshold, i>>

\* target boxes of a batch, as the loader gives them: [y_min, x_min, y_max, x_max]
TargetRows == {<<0, 0, 0, 0>>, <<0, 0, 0, 2>>}
\* confidences of the detector, in hundredths
ScoreLevels == {35, 60}
\* detections of a batch: [x, y, w, h, score]
PredRows == {<<0, 0, 1, 0, s>> : s \in ScoreLevels} \cup
            {<<0, 0, 2, 0, s>> : s \in ScoreLevels}

\* images with n boxes (targets and detections together)
BatchImages(n) ==
    UNION {{[targets |-> g, preds |-> p] : g \in [1..k -> TargetRows],
                                            p \in [1..(n - k) -> PredRows]}
           : k \in 0..n}

\* batches of b images holding at most n boxes
RECURSIVE Batches(_, _)
Batches(b, n) ==
    IF b = 0 THEN {<< >>}
    ELSE UNION {{<<im>> \o rest : im \in BatchImages(k), rest \in Batches(b - 1, n - k)}
                : k \in 0..n}

InitMap ==
    /\ entry = "evaluate_MAP"
    /\ pc = "map_append"
    /\ \E b \in 0..MaxImages :
          \E batch \in Batches(b, MaxBatchBoxes) :
             /\ input = [preds |-> [k \in 1..b |-> batch[k].preds],
                         targets |-> [k \in 1..b |-> batch[k].targets],
                         bs |-> b]
             /\ heap = [r \in {"targets"} |-> [k \in 1..b |-> batch[k].targets]]
    /\ preds = << >>
    /\ thresholds = << >>
    /\ gts_ref = "gts"
    /\ scores = << >>
    /\ t_idx = 0
    /\ ious = NoCache
    /\ image_precision = None
    /\ pred_idx = 0
    /\ tp = 0
    /\ fp = 0
    /\ matches = << >>
    /\ final_scores = << >>
    /\ all_predictions = << >>
    /\ sweep_idx = 0
    /\ final_score = None
    /\ best_final_score = None
    /\ precision_at_threshold = None
    /\ i = 0
    /\ ret = None

---------------------------------------------------------------------------
(* The calls a caller can make of calculate_final_score *)

\* score_threshold as a caller passes it, in hundredths: nothing restricts it
ScoreThresholds == {-10, 35, 150}

\* an image record as evaluate_MAP appends it
RecordOf(im) ==
    [pred_boxes |-> Rescale(PredBoxes(im.preds)),
     scores |-> [k \in 1..Len(im.preds) |-> im.preds[k][5]],
     gt_boxes |-> Rescale(SwapXY(im.targets))]

InitFinalScore ==
    /\ entry = "calculate_final_score"
    /\ pc = "fs_call"
    /\ \E b \in 0..MaxImages :
          \E batch \in Batches(b, MaxBatchBoxes) :
             \E cutoff \in ScoreThresholds :
                /\ input = [all_predictions |-> [k \in 1..b |-> RecordOf(batch[k])],
                            score_threshold |-> cutoff]
                /\ all_predictions = [k \in 1..b |-> RecordOf(batch[k])]
    /\ heap = << >>
    /\ preds = << >>
    /\ thresholds = << >>
    /\ gts_ref = "gts"
    /\ scores = << >>
    /\ t_idx = 0
    /\ ious = NoCache
    /\ image_precision = None
    /\ pred_idx = 0
    /\ tp = 0
    /\ fp = 0
    /\ matches = << >>
    /\ final_scores = << >>
    /\ sweep_idx = 0
    /\ final_score = None
    /\ best_final_score = None
    /\ precision_at_threshold = None
    /\ i = 0
    /\ ret = None

---------------------------------------------------------------------------
(* The program: a caller invokes one of the functions *)

Init == InitIou \/ InitImagePrecision \/ InitMap \/ InitFinalScore

Next ==
    \/ IouCall
    \/ ImagePrecisionEnter
    \/ PassBegin
    \/ PredStep
    \/ PassReturn
    \/ PassRaise
    \/ ImagePrecisionReturn
    \/ MapAppend
    \/ MapSweepBegin
    \/ MapSweepStep
    \/ MapSweepRaise
    \/ MapReturn
    \/ FinalScoreReturn
    \/ FinalScoreRaise

Spec == Init /\ [][Next]_vars

---------------------------------------------------------------------------
(* Properties of one matching pass (calculate_precision) *)

ImageCall == entry = "calculate_image_precision"

\* the loop of calculate_precision is running or has just ended
InPass == ImageCall /\ pc = "cp_loop"
\* calculate_precision has ended: returned (t_idx counts it) or raised
PassEnded == ImageCall /\ ((pc = "ip_loop" /\ t_idx >= 1) \/ pc = "raised")

\* the ground-truth indexes find_best_match returned for the first k predictions
MatchedBefore(k) == {matches[j] : j \in 1..(k - 1)} \ {-1}
Hits == {k \in 1..Len(matches) : matches[k] >= 0}
Misses == {k \in 1..Len(matches) : matches[k] = -1}
Unmatched == {g \in 0..(Len(input.gts) - 1) : g \notin MatchedBefore(Len(matches) + 1)}

\* IoU of ground-truth box g and prediction k (1-based), from the caller's boxes
DirectIou(g, k) == CalculateIou(input.gts[g + 1], input.preds[k], input.form)

\* C1: calculate_precision returns tp / (tp + fp + fn), tp the predictions that got
\* a ground-truth index, fp those that got none, fn every ground-truth box left
\* unmatched, whatever its coordinates.
C1_PrecisionCountsEveryUnmatchedBox ==
    (PassEnded /\ pc # "raised") =>
        precision_at_threshold =
            TrueDiv(Cardinality(Hits),
                    Cardinality(Hits) + Cardinality(Misses) + Cardinality(Unmatched))

\* C2: within one pass a ground-truth index is returned for at most one
\* prediction, so tp never exceeds the number of ground-truth boxes.
C2_MatchedAtMostOnce ==
    ImageCall =>
        /\ \A a, b \in Hits : a # b => matches[a] # matches[b]
        /\ tp = Cardinality(Hits)
        /\ tp <= Len(input.gts)

\* a later prediction reaches the threshold on a box an earlier one took
C2_Witness ==
    /\ InPass
    /\ \E a, b \in 1..Len(matches) :
          /\ a < b
          /\ matches[a] >= 0
          /\ matches[b] # matches[a]
          /\ ~FLess(DirectIou(matches[a], b), Threshold(thresholds[t_idx + 1]))

\* C3: a returned ground-truth index has IoU >= threshold with the prediction;
\* when no unmatched box reaches the threshold the prediction gets -1 and counts
\* as a false positive; from a cached IoU as from a computed one.
C3_NoMatchBelowThreshold ==
    InPass =>
        /\ \A k \in Hits :
              /\ ~FLess(DirectIou(matches[k], k), Threshold(thresholds[t_idx + 1]))
              /\ matches[k] \notin MatchedBefore(k)
        /\ \A k \in 1..Len(matches) :
              (\A g \in 0..(Len(input.gts) - 1) :
                  g \notin MatchedBefore(k) =>
                     FLess(DirectIou(g, k), Threshold(thresholds[t_idx + 1])))
              => matches[k] = -1
        /\ fp = Cardinality(Misses)

\* second pass: the first IoU comes from the cache and is below the threshold,
\* the second is computed now and reaches it
C3_Witness ==
    /\ InPass
    /\ t_idx >= 1
    /\ Len(matches) = 2
    /\ matches[1] = -1
    /\ matches[2] >= 0
    /\ ~FLess(DirectIou(matches[2], 1), Threshold(thresholds[1]))

\* C4: with no ground-truth box and no prediction calculate_precision returns 1.0
\* and raises nothing.
C4_EmptyImageScoresOne ==
    (PassEnded /\ input.gts = << >> /\ input.preds = << >>) =>
        (pc # "raised" /\ precision_at_threshold = Float(1, 1))

---------------------------------------------------------------------------
(* Properties of calculate_image_precision *)

\* calculate_precision on its own: fresh boxes, no cache
AlonePass(t) == CalculatePrecision(input.gts, input.preds, t, input.form, NoCache)

\* the sum of AlonePass(t).ret / n over the thresholds t of S
RECURSIVE SumOfAlonePasses(_, _)
SumOfAlonePasses(S, n) ==
    IF S = {} THEN Float(0, 1)
    ELSE LET t == CHOOSE y \in S : TRUE
         IN  FAdd(FDivInt(AlonePass(t).ret, n), SumOfAlonePasses(S \ {t}, n))

\* the mean of the passes run alone, whatever the order of the thresholds
MeanOfAlonePasses ==
    LET ts == {input.thresholds[k] : k \in 1..Len(input.thresholds)}
    IN  IF \E t \in ts : Raised(AlonePass(t).ret) THEN ZeroDivisionError
        ELSE SumOfAlonePasses(ts, Cardinality(ts))

\* C5: calculate_image_precision returns the unweighted mean of the precisions
\* calculate_precision gives for each threshold on its own (boxes all unmatched,
\* IoUs computed from the boxes); the shared cache and the order of the
\* thresholds change nothing, and one threshold gives calculate_precision itself.
C5_ImagePrecisionIsMeanOfPasses ==
    (ImageCall /\ pc \in {"done", "raised"}) =>
        /\ ret = MeanOfAlonePasses
        /\ Len(input.thresholds) = 1 => ret = AlonePass(input.thresholds[1]).ret

\* thresholds in descending order, a box matched at the lower one only
C5_Witness ==
    /\ ImageCall
    /\ pc = "done"
    /\ Len(input.thresholds) = 2
    /\ input.thresholds[1] > input.thresholds[2]
    /\ ret = Float(1, 2)
    /\ \E g \in 1..Len(ious.cells) : \E k \in 1..Len(input.preds) :
          ~FLess(ious.cells[g][k], Float(0, 1)) /\ FLess(ious.cells[g][k], Float(1, 1))

\* the scorer leaves what it was given as it was
RecordsBuilt ==
    [k \in 1..input.bs |->
        [pred_boxes |-> Rescale(PredBoxes(input.preds[k])),
         scores |-> [j \in 1..Len(input.preds[k]) |-> input.preds[k][j][5]],
         gt_boxes |-> Rescale(SwapXY(input.targets[k]))]]

MapCall == entry = "evaluate_MAP"
\* calculate_final_score has returned for the cutoff Cutoffs[sweep_idx]
CutoffScored == MapCall /\ pc = "map_sweep" /\ sweep_idx >= 1

\* C6: every threshold pass and every cutoff pass starts with all ground-truth
\* boxes unmatched; the caller's ground-truth boxes, predictions and scores are
\* the same after calculate_image_precision or calculate_final_score as before,
\* and a second call on them gives the same result.
C6_MatchedMarksStayInsideOnePass ==
    /\ ImageCall =>
          /\ heap["gts"] = input.gts
          /\ preds = input.preds
          /\ (pc = "cp_loop" /\ pred_idx = 0) => heap[gts_ref] = input.gts
          /\ pc \in {"done", "raised"} =>
                CalculateImagePrecision(heap, "gts", preds, thresholds,
                                        input.form).ret = ret
    /\ (MapCall /\ pc \in {"map_sweep", "done", "raised"}) =>
          all_predictions = RecordsBuilt
    /\ CutoffScored =>
          CalculateFinalScore(all_predictions, Cutoffs[sweep_idx]).ret = final_score

\* a second pass begins after a pass that marked a box as matched
C6_Witness ==
    /\ InPass
    /\ t_idx >= 1
    /\ pred_idx = 0
    /\ FLess(Float(0, 1), precision_at_threshold)
    /\ Len(input.gts) >= 1

---------------------------------------------------------------------------
(* Properties of calculate_final_score *)

\* the (box, score) pairs of a record whose score is strictly above the cutoff,
\* in the order of the record
Kept(rec, cutoff) ==
    SelectSeq([k \in 1..Len(rec.scores) |-> <<rec.pred_boxes[k], rec.scores[k]>>],
              LAMBDA pr : pr[2] > cutoff)

\* the precision of one image scored on the kept boxes
PrecisionOfKept(rec, cutoff) ==
    LET kept == Kept(rec, cutoff)
    IN  CalculateImagePrecision([r \in {"rec"} |-> rec.gt_boxes], "rec",
                                [k \in 1..Len(kept) |-> kept[k][1]],
                                IouThresholds, "pascal_voc").ret

RECURSIVE SumOfKept(_, _, _)
SumOfKept(recs, cutoff, k) ==
    IF k > Len(recs) THEN Float(0, 1)
    ELSE FAdd(PrecisionOfKept(recs[k], cutoff), SumOfKept(recs, cutoff, k + 1))

\* C7: calculate_final_score scores, for each image, exactly the predictions
\* whose confidence is strictly greater than the cutoff (equal is dropped), boxes
\* and scores chosen by the same indexes and kept in order, and returns the
\* arithmetic mean of the image precisions.
C7_FinalScoreIsMeanOverStrictlyAbove ==
    /\ CutoffScored =>
          /\ \A k \in 1..Len(all_predictions) :
                LET kept == Kept(all_predictions[k], Cutoffs[sweep_idx])
                    f == FinalScoreFilter(all_predictions[k], Cutoffs[sweep_idx])
                IN  /\ f.pred_boxes = [j \in 1..Len(kept) |-> kept[j][1]]
                    /\ f.scores = [j \in 1..Len(kept) |-> kept[j][2]]
          /\ Len(all_predictions) >= 1 =>
                final_score = FDivInt(SumOfKept(all_predictions, Cutoffs[sweep_idx], 1),
                                      Len(all_predictions))
          /\ Len(all_predictions) = 0 => final_score = NaN
    /\ (MapCall /\ pc = "raised") =>
          \E k \in 1..Len(all_predictions) :
             Raised(PrecisionOfKept(all_predictions[k], Cutoffs[sweep_idx + 1]))

\* an image has a detection exactly at the cutoff and one above it, and scores
\* above zero
C7_Witness ==
    /\ CutoffScored
    /\ FLess(Float(0, 1), final_score)
    /\ \E k \in 1..Len(all_predictions) :
          \E a, b \in 1..Len(all_predictions[k].scores) :
             /\ all_predictions[k].scores[a] = Cutoffs[sweep_idx]
             /\ all_predictions[k].scores[b] > Cutoffs[sweep_idx]
             /\ a < b

---------------------------------------------------------------------------
(* Properties of the cutoff sweep of evaluate_MAP *)

\* calculate_final_score at candidate k of the sweep
ScoreAt(k) == CalculateFinalScore(RecordsBuilt, Cutoffs[k]).ret

---------------------------------------------------------------------------
(* Properties of calculate_iou *)

IouCalled == entry = "calculate_iou" /\ pc = "done"

\* corner form of the two boxes of the call
GtCorners == ToCorners(input.gt, input.form)
PrCorners == ToCorners(input.pr, input.form)
ValidCorners(b) == b[3] >= b[1] /\ b[4] >= b[2]

\* inclusive width and height of the intersection of two corner boxes
WidthOfIntersection(a, b) == Min(a[3], b[3]) - Max(a[1], b[1]) + 1
HeightOfIntersection(a, b) == Min(a[4], b[4]) - Max(a[2], b[2]) + 1

\* C9: for valid corner boxes calculate_iou returns a value in [0, 1], and 0
\* whenever the inclusive width or height of the intersection is zero or
\* negative.
C9_IouInUnitIntervalZeroWithoutOverlap ==
    (IouCalled /\ ValidCorners(GtCorners) /\ ValidCorners(PrCorners)) =>
        /\ ret.exc = "none"
        /\ ~FLess(ret, Float(0, 1))
        /\ ~FLess(Float(1, 1), ret)
        /\ (\/ WidthOfIntersection(GtCorners, PrCorners) <= 0
            \/ HeightOfIntersection(GtCorners, PrCorners) <= 0) => ret = Float(0, 1)

\* the boxes touch: the width of the intersection is exactly zero, the height
\* is positive
C9_Witness ==
    /\ IouCalled
    /\ ValidCorners(GtCorners)
    /\ ValidCorners(PrCorners)
    /\ WidthOfIntersection(GtCorners, PrCorners) = 0
    /\ HeightOfIntersection(GtCorners, PrCorners) > 0
    /\ ret = Float(0, 1)

---------------------------------------------------------------------------
(* Adding a prediction that overlaps nothing *)

\* calculate_precision has returned for the threshold thresholds[t_idx]
PassReturned == ImageCall /\ pc = "ip_loop" /\ t_idx >= 1

\* prediction k (1-based) has no geometric overlap with any ground-truth box
OverlapsNothing(k) ==
    \A g \in 1..Len(input.gts) :
       LET a == ToCorners(input.gts[g], input.form)
           b == ToCorners(input.preds[k], input.form)
       IN  WidthOfIntersection(a, b) <= 0 \/ HeightOfIntersection(a, b) <= 0

\* the predictions without prediction k
Without(prs, k) ==
    [j \in 1..(Len(prs) - 1) |-> IF j < k THEN prs[j] ELSE prs[j + 1]]

\* the pass on the same boxes without prediction k
PassWithout(k) ==
    CalculatePrecision(input.gts, Without(input.preds, k), thresholds[t_idx],
                       input.form, NoCache)

---------------------------------------------------------------------------
(* Raising the score cutoff *)

\* the confidences of a record never go up along the list
SortedDescending(scs) == \A a, b \in 1..Len(scs) : a < b => scs[a] >= scs[b]

IsPrefix(s, t) == Len(s) <= Len(t) /\ \A k \in 1..Len(s) : s[k] = t[k]

\* what calculate_precision counts on the predictions of a record kept at a
\* cutoff, at IoU threshold t
CountsAt(rec, cutoff, t) ==
    LET kept == FinalScoreFilter(rec, cutoff).pred_boxes
        r == CalculatePrecision(rec.gt_boxes, kept, t, "pascal_voc", NoCache)
    IN  [kept |-> kept, tp |-> r.tp, fp |-> r.fp, fn |-> FalseNegatives(r.gts)]

\* C11: for an image whose predictions are in descending confidence and a fixed
\* IoU threshold, a cutoff c2 >= c1 keeps a part of what c1 keeps, and
\* calculate_precision counts no more true positives, no more false positives
\* and no fewer false negatives at c2 than at c1.
C11_CountsMonotoneInCutoff ==
    CutoffScored =>
        \A k \in 1..Len(all_predictions) :
           SortedDescending(all_predictions[k].scores) =>
              \A x \in 1..Len(IouThresholds) :
                 \A hi \in {CountsAt(all_predictions[k], Cutoffs[sweep_idx],
                                     IouThresholds[x])} :
                    \A j \in 1..sweep_idx :
                       \A lo \in {CountsAt(all_predictions[k], Cutoffs[j],
                                           IouThresholds[x])} :
                          /\ IsPrefix(hi.kept, lo.kept)
                          /\ hi.tp <= lo.tp
                          /\ hi.fp <= lo.fp
                          /\ hi.fn >= lo.fn

\* the higher cutoff drops a detection that was a true positive: one true
\* positive fewer, one false negative more
C11_Witness ==
    /\ CutoffScored
    /\ \E k \in 1..Len(all_predictions) :
          /\ SortedDescending(all_predictions[k].scores)
          /\ \E j \in 1..sweep_idx : \E x \in 1..Len(IouThresholds) :
                \E lo \in {CountsAt(all_predictions[k], Cutoffs[j], IouThresholds[x])},
                   hi \in {CountsAt(all_predictions[k], Cutoffs[sweep_idx],
                                    IouThresholds[x])} :
                   /\ Len(hi.kept) >= 1
                   /\ Len(hi.kept) < Len(lo.kept)
                   /\ hi.tp < lo.tp
                   /\ hi.fn > lo.fn

---------------------------------------------------------------------------
(* Cutoffs outside [0, 1] *)

FinalScoreCalled == entry = "calculate_final_score" /\ pc \in {"done", "raised"}

\* a value in hundredths that is not in [0, 1]
OutsideUnitInterval(c) == c < 0 \/ c > 100

\* the error the specification names; nothing in the source raises it
InvalidConfigurationError == [exc |-> "InvalidConfigurationError", n |-> 0, d |-> 1]

\* C12: with a confidence cutoff outside [0, 1] calculate_final_score, given at
\* least one image, fails with InvalidConfigurationError before the precision of
\* any image is computed and returns no score (stated for the calls in which no
\* image's precision divides by zero).
C12_OutOfRangeCutoffFailsFast ==
    (/\ FinalScoreCalled
     /\ OutsideUnitInterval(input.score_threshold)
     /\ Len(input.all_predictions) >= 1
     /\ ~Raised(ret)) =>
        /\ pc = "raised"
        /\ ret = InvalidConfigurationError
        /\ final_scores = << >>

---------------------------------------------------------------------------
(* Which box find_best_match picks *)

\* the boxes prediction k (1-based) can be matched to: unmatched when it is
\* processed, IoU at least the threshold of the pass
Candidates(k) ==
    {g \in 0..(Len(input.gts) - 1) :
        /\ g \notin MatchedBefore(k)
        /\ ~FLess(DirectIou(g, k), Threshold(thresholds[t_idx + 1]))}

\* C13: find_best_match returns a candidate of maximum IoU, and among the
\* candidates of maximum IoU the one of smallest index; -1 only when there is
\* no candidate.
C13_FirstMaximumIouWins ==
    InPass =>
        \A k \in 1..Len(matches) :
           /\ matches[k] = -1 <=> Candidates(k) = {}
           /\ matches[k] >= 0 =>
                 /\ matches[k] \in Candidates(k)
                 /\ \A g \in Candidates(k) :
                       ~FLess(DirectIou(matches[k], k), DirectIou(g, k))
                 /\ \A g \in Candidates(k) :
                       DirectIou(g, k) = DirectIou(matches[k], k) => matches[k] <= g

\* two different candidates share the maximum IoU, below 1, and the first is
\* returned
C13_Witness ==
    /\ InPass
    /\ \E k \in 1..Len(matches) : \E g \in Candidates(k) :
          /\ matches[k] >= 0
          /\ g > matches[k]
          /\ input.gts[g + 1] # input.gts[matches[k] + 1]
          /\ DirectIou(g, k) = DirectIou(matches[k], k)
          /\ FLess(DirectIou(g, k), Float(1, 1))

====
